---- MODULE Spec2Model ----
(***************************************************************************)
(* State-machine model of the webauthn-server request handlers             *)
(* (src/src/handlers.rs) and of the configuration built in                 *)
(* src/src/main.rs.                                                        *)
(*                                                                         *)
(* The session (axum_sessions) is a key/value bag with the four keys       *)
(* handlers.rs uses; an optional value is a set with at most one element   *)
(* ({} is None).  The credential repository (module app) and the session   *)
(* store (module session) are not part of the given sources: they are      *)
(* modelled from the design document (sections 4.1, 4.2) and marked so.    *)
(*                                                                         *)
(* Every handler has at most one awaited repository call, except           *)
(* register_end_handler, which reads the user's credentials and then       *)
(* inserts; that handler is two steps (check, then insert) and requests of *)
(* different sessions interleave between them.  One browser session has at *)
(* most one request in flight (design document, section 5).                *)
(***************************************************************************)
EXTENDS Integers, Sequences, FiniteSets, TLC

\* ------------------------------------------------------------- bounds
NumSessions == 2
NumUsers == 2
NumCreds == 1
MaxCounter == 1

SessionIds == 1..NumSessions
Usernames == 1..NumUsers
CredIds == 1..NumCreds
Counters == 0..MaxCounter

\* ----------------------------------------------------------- URL model
\* A URL string is kept as its parts: scheme ("" when the string has none,
\* as in "/credentials"), host labels, port (0 when the string names none)
\* and path segments.
Str(scheme, host, port, path) ==
    [scheme |-> scheme, host |-> host, port |-> port, path |-> path]

ExampleCom == <<"example", "com">>
AuthExampleCom == <<"auth", "example", "com">>
SubExampleCom == <<"sub", "example", "com">>
ExampleComEvilCom == <<"example", "com", "evil", "com">>
ExampleNet == <<"example", "net">>

Hosts == {<<>>, ExampleCom, AuthExampleCom, SubExampleCom, ExampleComEvilCom, ExampleNet}
Schemes == {"", "https", "http", "javascript"}
Ports == {0, 443, 8443}
Paths == {<<>>, <<"credentials">>}

UrlStrings == {Str(s, h, p, pa) : s \in Schemes, h \in Hosts, p \in Ports, pa \in Paths}

IsSpecial(scheme) == scheme \in {"https", "http"}

DefaultPort(scheme) == IF scheme = "https" THEN 443 ELSE IF scheme = "http" THEN 80 ELSE 0

\* url::Url::parse: a string with no scheme is a relative URL and fails
\* without a base; a special scheme needs a host; a port equal to the
\* scheme's default is dropped.  {} is Err, {u} is Ok(u).
UrlParse(s) ==
    IF s.scheme = "" THEN {}
    ELSE IF IsSpecial(s.scheme) /\ s.host = <<>> THEN {}
    ELSE {[scheme |-> s.scheme,
           host |-> s.host,
           port |-> IF s.port = DefaultPort(s.scheme) THEN 0 ELSE s.port,
           path |-> s.path]}

\* Url::origin: (scheme, host, port or the scheme's default) for a special
\* scheme, an opaque origin otherwise.
UrlOrigin(u) ==
    IF IsSpecial(u.scheme)
    THEN [opaque |-> FALSE, scheme |-> u.scheme, host |-> u.host,
          port |-> IF u.port = 0 THEN DefaultPort(u.scheme) ELSE u.port]
    ELSE [opaque |-> TRUE, scheme |-> "", host |-> <<>>, port |-> 0]

\* Origin's ==: an opaque origin is a fresh unique value, equal to no other.
OriginEq(a, b) == ~a.opaque /\ ~b.opaque /\ a = b

\* format!("{}/{}", state.origin, "credentials")
DefaultRedirect(origin) == [origin EXCEPT !.path = Append(origin.path, "credentials")]

\* WebauthnBuilder::new(rp_id, origin).allow_subdomains(true)
\*   .append_allowed_origin(..)*.build(): the allowed origins are the
\* relying-party origin and the extra ones; allow_subdomains is a flag of
\* the ceremony verification and adds no entry to the list.
get_allowed_origins(cfg) ==
    UrlParse(cfg.rp_origin) \cup UNION {UrlParse(e) : e \in cfg.extra_allowed_origins}

\* The origin test of get_authenticate_template_handler.
OriginAllowedAny(cfg, url) == TRUE

OriginAllowedMut(cfg, url) ==
    \E u \in get_allowed_origins(cfg) :
        \/ OriginEq(UrlOrigin(u), UrlOrigin(url))
        \/ /\ cfg.allow_subdomains
           /\ IsSpecial(url.scheme) /\ u.scheme = url.scheme
           /\ Len(url.host) > Len(u.host)
           /\ SubSeq(url.host, Len(url.host) - Len(u.host) + 1, Len(url.host)) = u.host

OriginAllowed(cfg, url) ==
    \E u \in get_allowed_origins(cfg) : OriginEq(UrlOrigin(u), UrlOrigin(url))

\* The redirect gate: the value of the redirect_url parameter (param, {} when
\* the query has none), parsed and matched.  Returns the status reached and
\* the string to store.
validate_redirect(cfg, origin, param) ==
    LET redirect_url == IF param = {} THEN DefaultRedirect(origin)
                        ELSE CHOOSE s \in param : TRUE
        parsed == UrlParse(redirect_url)
    IN  IF parsed = {} THEN [status |-> "BAD_REQUEST", store |-> {}]
        ELSE IF ~OriginAllowed(cfg, CHOOSE u \in parsed : TRUE)
        THEN [status |-> "FORBIDDEN", store |-> {}]
        ELSE [status |-> "OK", store |-> {redirect_url}]


\* ------------------------------------------------------------- state
VARIABLES
    config,       \* the Webauthn configuration and App.origin (main.rs)
    sessions,     \* session store: session id -> {} or {session data}
    credentials,  \* credential repository: rows (id, username, counter)
    pending,      \* per session: a register_end request between its duplicate check and its insert
    resp          \* the response to the last request handled, and the calls it made

vars == <<config, sessions, credentials, pending, resp>>

\* Session keys (handlers.rs 19-22); each field is the Option stored under it.
EmptySession ==
    [logged_in |-> {}, passkey_registration |-> {},
     passkey_authentication |-> {}, redirect_url |-> {}]

\* Session store, load: no row (never created, or expired) is an empty session.
Load(store, sid) == IF store[sid] = {} THEN EmptySession ELSE CHOOSE d \in store[sid] : TRUE

\* Session store, save: the data is persisted when the handler changed it.
Save(store, sid, data) ==
    IF data = Load(store, sid) THEN store ELSE [store EXCEPT ![sid] = {data}]

\* session.get::<bool>(SESSIONKEY_LOGGEDIN).unwrap_or_default()
LoggedInFlagMut(sess) == FALSE \notin sess.logged_in

LoggedInFlag(sess) == TRUE \in sess.logged_in

RequireLoggedInMut(sess) == TRUE

\* RequireLoggedIn::from_request: Ok iff the flag is set, else the redirect.
RequireLoggedIn(sess) == LoggedInFlag(sess)

\* The X-Remote-User header of a request.
Headers ==
    {[kind |-> "absent", name |-> 1], [kind |-> "binary", name |-> 1]}
        \cup {[kind |-> "ok", name |-> u] : u \in Usernames}

\* XRemoteUser::from_request: the rejection status, "" when extracted.
XRemoteUser(hdr) ==
    IF hdr.kind = "absent" THEN "UNAUTHORIZED"
    ELSE IF hdr.kind = "binary" THEN "INTERNAL_SERVER_ERROR"
    ELSE ""

\* ------------------------------------------------ credential repository
Row(id, username, counter) == [id |-> id, username |-> username, counter |-> counter]

\* get_user_with_credentials: the rows the username owns.
get_user_with_credentials(db, username) == {r \in db : r.username = username}

cred_idsMut(rows) == {}

\* The credential ids of a user's credentials.
cred_ids(rows) == {r.id : r \in rows}

add_credentialMut(db, username, id) ==
    IF id \in {r.id : r \in {x \in db : x.username = username}}
    THEN [status |-> "CONFLICT", db |-> db]
    ELSE [status |-> "", db |-> db \cup {[id |-> id, username |-> username, counter |-> 0]}]

\* add_credential: rows are keyed by credential id; an id already stored is
\* a Conflict and the repository is unchanged.
add_credential(db, username, id) ==
    IF id \in cred_ids(db) THEN [status |-> "CONFLICT", db |-> db]
    ELSE [status |-> "", db |-> db \cup {Row(id, username, 0)}]

\* update_credential: writes the authenticator's counter to the row.
update_credential(db, auth_result) ==
    {IF r.id = auth_result.cred_id THEN [r EXCEPT !.counter = auth_result.counter] ELSE r
        : r \in db}

\* delete_credential: removes the row with that id; NotFound when none.
delete_credential(db, id) ==
    IF id \in cred_ids(db) THEN [status |-> "", db |-> {r \in db : r.id # id}]
    ELSE [status |-> "NOT_FOUND", db |-> db]

\* The statuses the design document calls Conflict: the handler's own
\* duplicate rejection (BAD_REQUEST) and the repository's.
Conflict == {"BAD_REQUEST", "CONFLICT"}

\* ------------------------------------------------------------ responses
\* prims: the calls made to the external primitive, each with the credential
\* ids it was given or returned; repo: the repository writes invoked.
Prim(name, ids) == [name |-> name, ids |-> ids]

Response(handler, status, challenge, redirect_url, prims, repo) ==
    [handler |-> handler, status |-> status, challenge |-> challenge,
     redirect_url |-> redirect_url, prims |-> prims, repo |-> repo]

Plain(handler, status) == Response(handler, status, {}, {}, {}, {})

CryptoRejectionMut(handler, call) ==
    Response(handler, "INTERNAL_SERVER_ERROR", {}, {}, call, {})

\* Err(e) of finish_passkey_registration / finish_passkey_authentication:
\* the primitive was called and the answer is UNAUTHORIZED.
CryptoRejection(handler, call) == Response(handler, "UNAUTHORIZED", {}, {}, call, {})

\* ---------------------------------------------------------------- Init
\* main.rs 59-65: rp_origin and the extra origins parse, or main returns.
Configs ==
    {[rp_origin |-> Str("https", AuthExampleCom, 0, <<>>),
      extra_allowed_origins |-> {Str("https", ExampleCom, 0, <<>>)},
      allow_subdomains |-> TRUE]}

Init ==
    /\ config \in Configs
    /\ sessions = [s \in SessionIds |-> {}]
    /\ credentials = {}
    /\ pending = [s \in SessionIds |-> {}]
    /\ resp = Plain("", "")

\* ------------------------------------------------------------ handlers
Idle(sid) == pending[sid] = {}

\* validate_handler: the status of the validation probe.
validate(sess) == IF LoggedInFlag(sess) THEN "OK" ELSE "UNAUTHORIZED"

validate_handler(sid) ==
    /\ Idle(sid)
    /\ resp' = Plain("validate", validate(Load(sessions, sid)))
    /\ UNCHANGED <<config, sessions, credentials, pending>>

\* The gate on /api/register and /api/credentials (main.rs 110-124): the
\* rejection is a temporary redirect to the login page.
GateRejection(handler) == Plain(handler, "TEMPORARY_REDIRECT")

\* register_start_handler: the session after the request and the response.
register_start(sess, db, hdr, dbOk, primOk) ==
    LET user == get_user_with_credentials(db, hdr.name)
        excl == cred_ids(user)
        call == {Prim("start_passkey_registration", excl)}
    IN  IF ~RequireLoggedIn(sess)
        THEN [session |-> sess, resp |-> GateRejection("register_start")]
        ELSE IF XRemoteUser(hdr) # ""
        THEN [session |-> sess, resp |-> Plain("register_start", XRemoteUser(hdr))]
        ELSE IF ~dbOk
        THEN [session |-> sess, resp |-> Plain("register_start", "INTERNAL_SERVER_ERROR")]
        ELSE IF ~primOk
        THEN [session |-> sess,
              resp |-> Response("register_start", "INTERNAL_SERVER_ERROR", {}, {}, call, {})]
        ELSE [session |-> [sess EXCEPT !.passkey_registration = {[excl |-> excl]}],
              resp |-> Response("register_start", "OK", {excl}, {}, call, {})]

register_start_handler(sid, hdr, dbOk, primOk) ==
    LET out == register_start(Load(sessions, sid), credentials, hdr, dbOk, primOk)
    IN  /\ Idle(sid)
        /\ sessions' = Save(sessions, sid, out.session)
        /\ resp' = out.resp
        /\ UNCHANGED <<config, credentials, pending>>

\* The outcomes of finish_passkey_registration: Err ({}), or the passkey
\* whose credential id the client's response carries.
FinishRegistration == {{}} \cup {{c} : c \in CredIds}

\* user.credentials.iter().any(|c| *c.credential.cred_id() == *passkey.cred_id())
AlreadyRegisteredMut(user, id) == FALSE

AlreadyRegistered(user, id) == id \in cred_ids(user)

\* register_end_handler up to its duplicate check (handlers.rs 144-168):
\* the response when it returns early, or the insert to make.
register_end_check(sess, db, hdr, fin, dbOk) ==
    LET call == {Prim("finish_passkey_registration", fin)}
        user == get_user_with_credentials(db, hdr.name)
        id == CHOOSE c \in fin : TRUE
    IN  IF ~RequireLoggedIn(sess)
        THEN [insert |-> {}, resp |-> GateRejection("register_end")]
        ELSE IF XRemoteUser(hdr) # ""
        THEN [insert |-> {}, resp |-> Plain("register_end", XRemoteUser(hdr))]
        ELSE IF sess.passkey_registration = {}
        THEN [insert |-> {}, resp |-> Plain("register_end", "NOT_FOUND")]
        ELSE IF fin = {}
        THEN [insert |-> {}, resp |-> CryptoRejection("register_end", call)]
        ELSE IF ~dbOk
        THEN [insert |-> {},
              resp |-> Response("register_end", "INTERNAL_SERVER_ERROR", {}, {}, call, {})]
        ELSE IF AlreadyRegistered(user, id)
        THEN [insert |-> {},
              resp |-> Response("register_end", "BAD_REQUEST", {}, {}, call, {})]
        ELSE [insert |-> {[username |-> hdr.name, id |-> id]},
              resp |-> Response("register_end", "OK", {}, {}, call, {})]

register_end_handler(sid, hdr, fin, dbOk) ==
    LET out == register_end_check(Load(sessions, sid), credentials, hdr, fin, dbOk)
    IN  /\ Idle(sid)
        /\ pending' = [pending EXCEPT ![sid] = out.insert]
        /\ resp' = IF out.insert = {} THEN out.resp ELSE resp
        /\ UNCHANGED <<config, sessions, credentials>>

\* The ? after a repository call: an error status returns from the handler.
TryMut(status) == ""

Try(status) == status

\* register_end_handler from add_credential on (handlers.rs 170-175).
register_end_insert(sess, db, ins, dbOk) ==
    LET call == {Prim("finish_passkey_registration", {ins.id})}
        added == add_credential(db, ins.username, ins.id)
        err == Try(IF dbOk THEN added.status ELSE "INTERNAL_SERVER_ERROR")
    IN  IF err # ""
        THEN [session |-> sess, db |-> db,
              resp |-> Response("register_end", err, {}, {}, call, {"add_credential"})]
        ELSE [session |-> [sess EXCEPT !.passkey_registration = {}],
              db |-> IF dbOk THEN added.db ELSE db,
              resp |-> Response("register_end", "OK", {}, {}, call, {"add_credential"})]

register_end_handler_insert(sid, dbOk) ==
    /\ pending[sid] # {}
    /\ LET out == register_end_insert(Load(sessions, sid), credentials,
                                      CHOOSE i \in pending[sid] : TRUE, dbOk)
       IN  /\ sessions' = Save(sessions, sid, out.session)
           /\ credentials' = out.db
           /\ resp' = out.resp
    /\ pending' = [pending EXCEPT ![sid] = {}]
    /\ UNCHANGED config

\* user.credentials.is_empty()
NoCredentialsMut(user) == FALSE

NoCredentialsAlways(user) == TRUE

NoCredentials(user) == user = {}

\* session.insert(SESSIONKEY_LOGGEDIN, true)
SetLoggedIn(sess) == [sess EXCEPT !.logged_in = {TRUE}]

\* authenticate_start_handler: the session after the request and the response.
authenticate_start(sess, db, hdr, dbOk, primOk) ==
    LET user == get_user_with_credentials(db, hdr.name)
        passkeys == cred_ids(user)
        call == {Prim("start_passkey_authentication", passkeys)}
    IN  IF XRemoteUser(hdr) # ""
        THEN [session |-> sess, resp |-> Plain("authenticate_start", XRemoteUser(hdr))]
        ELSE IF LoggedInFlag(sess)
        THEN [session |-> sess, resp |-> Plain("authenticate_start", "OK")]
        ELSE IF ~dbOk
        THEN [session |-> sess, resp |-> Plain("authenticate_start", "INTERNAL_SERVER_ERROR")]
        ELSE IF NoCredentials(user)
        THEN [session |-> SetLoggedIn(sess), resp |-> Plain("authenticate_start", "OK")]
        ELSE IF ~primOk
        THEN [session |-> sess,
              resp |-> Response("authenticate_start", "UNAUTHORIZED", {}, {}, call, {})]
        ELSE [session |-> [sess EXCEPT !.passkey_authentication = {[creds |-> passkeys]}],
              resp |-> Response("authenticate_start", "OK", {passkeys}, {}, call, {})]

authenticate_start_handler(sid, hdr, dbOk, primOk) ==
    LET out == authenticate_start(Load(sessions, sid), credentials, hdr, dbOk, primOk)
    IN  /\ Idle(sid)
        /\ sessions' = Save(sessions, sid, out.session)
        /\ resp' = out.resp
        /\ UNCHANGED <<config, credentials, pending>>

\* AuthenticationResult: the credential that signed, its counter, and
\* whether the stored record needs updating.
AuthResults == [cred_id : CredIds, counter : Counters, needs_update : BOOLEAN]

\* The outcomes of finish_passkey_authentication for a ceremony state: Err
\* ({}), or a result for one of the credentials the ceremony was started with.
FinishAuthentication(state) == {{}} \cup {{a} : a \in {r \in AuthResults : r.cred_id \in state.creds}}

\* session.get::<PasskeyAuthentication>(SESSIONKEY_PASSKEYAUTHENTICATION)
PendingAuthenticationMut(sess) == {[creds |-> CredIds]}

PendingAuthentication(sess) == sess.passkey_authentication

NeedsUpdateMut(auth_result) == TRUE

\* auth_result.needs_update()
NeedsUpdate(auth_result) == auth_result.needs_update

ClearAuthenticationMut(sess) == sess

\* session.remove(SESSIONKEY_PASSKEYAUTHENTICATION)
ClearAuthentication(sess) == [sess EXCEPT !.passkey_authentication = {}]

\* if let Some(redirect_url) = session.get(..) { session.remove(..) }
TakeRedirectUrlMut(sess) == sess

TakeRedirectUrl(sess) == [sess EXCEPT !.redirect_url = {}]

\* authenticate_end_handler: session, repository and response after the
\* request.  fin is the primitive's outcome, consulted only when called.
authenticate_end(sess, db, origin, fin, dbOk) ==
    LET call == {Prim("finish_passkey_authentication", {a.cred_id : a \in fin})}
        auth_result == CHOOSE a \in fin : TRUE
        cleared == SetLoggedIn(ClearAuthentication(sess))
        write == IF NeedsUpdate(auth_result) THEN {"update_credential"} ELSE {}
        db2 == IF NeedsUpdate(auth_result) /\ dbOk THEN update_credential(db, auth_result)
               ELSE db
        err == IF NeedsUpdate(auth_result) /\ ~dbOk THEN Try("INTERNAL_SERVER_ERROR") ELSE ""
    IN  IF PendingAuthentication(sess) = {}
        THEN [session |-> sess, db |-> db, resp |-> Plain("authenticate_end", "NO_CONTENT")]
        ELSE IF fin = {}
        THEN [session |-> sess, db |-> db, resp |-> CryptoRejection("authenticate_end", call)]
        ELSE IF err # ""
        THEN [session |-> sess, db |-> db,
              resp |-> Response("authenticate_end", err, {}, {}, call, write)]
        ELSE IF cleared.redirect_url # {}
        THEN [session |-> TakeRedirectUrl(cleared), db |-> db2,
              resp |-> Response("authenticate_end", "OK", {}, cleared.redirect_url, call, write)]
        ELSE [session |-> cleared, db |-> db2,
              resp |-> Response("authenticate_end", "OK", {}, {DefaultRedirect(origin)},
                                call, write)]

authenticate_end_handler(sid, fin, dbOk) ==
    LET sess == Load(sessions, sid)
        out == authenticate_end(sess, credentials, config.rp_origin, fin, dbOk)
    IN  /\ Idle(sid)
        /\ \/ PendingAuthentication(sess) = {} /\ fin = {}
           \/ PendingAuthentication(sess) # {}
              /\ fin \in FinishAuthentication(CHOOSE a \in PendingAuthentication(sess) : TRUE)
        /\ sessions' = Save(sessions, sid, out.session)
        /\ credentials' = out.db
        /\ resp' = out.resp
        /\ UNCHANGED <<config, pending>>

\* delete_credentials_api_handler, behind the gate (main.rs 121-124).
delete_credentials_api(sess, db, id, dbOk) ==
    LET deleted == delete_credential(db, id)
    IN  IF ~RequireLoggedIn(sess)
        THEN [db |-> db, resp |-> GateRejection("delete_credentials_api")]
        ELSE IF ~dbOk
        THEN [db |-> db,
              resp |-> Response("delete_credentials_api", "INTERNAL_SERVER_ERROR", {}, {}, {},
                                {"delete_credential"})]
        ELSE IF deleted.status # ""
        THEN [db |-> db,
              resp |-> Response("delete_credentials_api", deleted.status, {}, {}, {},
                                {"delete_credential"})]
        ELSE [db |-> deleted.db,
              resp |-> Response("delete_credentials_api", "NO_CONTENT", {}, {}, {},
                                {"delete_credential"})]

delete_credentials_api_handler(sid, id, dbOk) ==
    LET out == delete_credentials_api(Load(sessions, sid), credentials, id, dbOk)
    IN  /\ Idle(sid)
        /\ credentials' = out.db
        /\ resp' = out.resp
        /\ UNCHANGED <<config, sessions, pending>>

\* The redirect_url parameters requests carry under Spec: an allowed origin,
\* a foreign origin, and the path the gate's own redirect names.
\* SpecRedirect draws them from all of UrlStrings, and none.
RedirectParams ==
    {{Str("https", ExampleCom, 0, <<"credentials">>)},
     {Str("https", ExampleComEvilCom, 0, <<>>)},
     {Str("", <<>>, 0, <<"credentials">>)}}

\* get_authenticate_template_handler: the session after the request and the response.
get_authenticate_template(sess, cfg, hdr, param) ==
    LET gate == validate_redirect(cfg, cfg.rp_origin, param)
    IN  IF XRemoteUser(hdr) # ""
        THEN [session |-> sess, resp |-> Plain("get_authenticate_template", XRemoteUser(hdr))]
        ELSE IF gate.status # "OK"
        THEN [session |-> sess, resp |-> Plain("get_authenticate_template", gate.status)]
        ELSE [session |-> [sess EXCEPT !.redirect_url = gate.store],
              resp |-> Plain("get_authenticate_template", "OK")]

get_authenticate_template_handler(sid, hdr, param) ==
    LET out == get_authenticate_template(Load(sessions, sid), config, hdr, param)
    IN  /\ Idle(sid)
        /\ sessions' = Save(sessions, sid, out.session)
        /\ resp' = out.resp
        /\ UNCHANGED <<config, credentials, pending>>

\* Session store: a session past its expiry is gone.
SessionExpire(sid) ==
    /\ Idle(sid)
    /\ sessions[sid] # {}
    /\ sessions' = [sessions EXCEPT ![sid] = {}]
    /\ UNCHANGED <<config, credentials, pending, resp>>

\* The faults a request can meet, listed only where the handler reaches the
\* call: the repository call failing ("db"), the primitive failing ("prim").
Faults(hdr, kinds) == IF hdr.kind = "ok" THEN {"none"} \cup kinds ELSE {"none"}

Next ==
    \/ \E sid \in SessionIds : validate_handler(sid)
    \/ \E sid \in SessionIds, hdr \in Headers :
          \E f \in Faults(hdr, {"db", "prim"}) :
              register_start_handler(sid, hdr, f # "db", f # "prim")
    \/ \E sid \in SessionIds, hdr \in Headers, fin \in FinishRegistration :
          \E f \in (IF fin = {} THEN {"none"} ELSE Faults(hdr, {"db"})) :
              register_end_handler(sid, hdr, fin, f # "db")
    \/ \E sid \in SessionIds, dbOk \in BOOLEAN : register_end_handler_insert(sid, dbOk)
    \/ \E sid \in SessionIds, hdr \in Headers :
          \E f \in Faults(hdr, {"db", "prim"}) :
              authenticate_start_handler(sid, hdr, f # "db", f # "prim")
    \/ \E sid \in SessionIds, fin \in {{}} \cup {{a} : a \in AuthResults} :
          \E dbOk \in (IF \E a \in fin : a.needs_update THEN BOOLEAN ELSE {TRUE}) :
              authenticate_end_handler(sid, fin, dbOk)
    \/ \E sid \in SessionIds, id \in CredIds, dbOk \in BOOLEAN :
          delete_credentials_api_handler(sid, id, dbOk)
    \/ \E sid \in SessionIds, hdr \in Headers :
          \E param \in (IF hdr.kind = "ok" THEN RedirectParams ELSE {{}}) :
              get_authenticate_template_handler(sid, hdr, param)
    \/ \E sid \in SessionIds : SessionExpire(sid)

Spec == Init /\ [][Next]_vars

\* ------------------------------------------- the redirect gate alone
\* The configurations main.rs can build from its command line: a relying
\* party origin and any extra origins, all parsable, allow_subdomains(true).
ConfigsRedirect ==
    {[rp_origin |-> r, extra_allowed_origins |-> e, allow_subdomains |-> TRUE] :
        r \in {Str("https", ExampleCom, 0, <<>>), Str("https", AuthExampleCom, 0, <<>>)},
        e \in SUBSET {Str("https", ExampleCom, 0, <<>>), Str("https", SubExampleCom, 0, <<>>),
                      Str("https", ExampleNet, 0, <<>>), Str("https", ExampleCom, 8443, <<>>)}}

InitRedirect ==
    /\ config \in ConfigsRedirect
    /\ sessions = [s \in SessionIds |-> {}]
    /\ credentials = {}
    /\ pending = [s \in SessionIds |-> {}]
    /\ resp = Plain("", "")

\* One browser session of one user requests the login page with every
\* redirect_url parameter.
NextRedirect ==
    \E param \in {{}} \cup {{s} : s \in UrlStrings} :
        get_authenticate_template_handler(1, [kind |-> "ok", name |-> 1], param)

SpecRedirect == InitRedirect /\ [][NextRedirect]_vars

\* ===================================================== properties
\* The properties speak of the handlers' results in every reachable state and
\* for every request: the session, repository and response a handler leaves.
OkHeaders == {h \in Headers : h.kind = "ok"}

Data(sid) == Load(sessions, sid)

Flag(sid) == TRUE \in Data(sid).logged_in

Owned(username) == {r \in credentials : r.username = username}

AuthFins == {{}} \cup {{a} : a \in AuthResults}

RegisterStart(sid, hdr, dbOk, primOk) ==
    register_start(Data(sid), credentials, hdr, dbOk, primOk)

RegisterEndCheck(sid, hdr, fin, dbOk) ==
    register_end_check(Data(sid), credentials, hdr, fin, dbOk)

RegisterEndInsert(sid, ins, dbOk) ==
    register_end_insert(Data(sid), credentials, ins, dbOk)

AuthenticateStart(sid, hdr, dbOk, primOk) ==
    authenticate_start(Data(sid), credentials, hdr, dbOk, primOk)

AuthenticateEnd(sid, fin, dbOk) ==
    authenticate_end(Data(sid), credentials, config.rp_origin, fin, dbOk)

GetAuthenticateTemplate(sid, hdr, param) ==
    get_authenticate_template(Data(sid), config, hdr, param)

\* The session sid holds once the handler's session is saved.
Saved(sid, data) == Load(Save(sessions, sid, data), sid)

\* C1: an authenticate_start of a user whose credential list comes back
\* empty, on a session that is not logged in, sets the session's logged_in
\* flag, answers OK with challenge null, calls no primitive and leaves
\* passkey_authentication as it was.
C1_BootstrapLogin ==
    \A sid \in SessionIds, hdr \in OkHeaders, primOk \in BOOLEAN :
        (~Flag(sid) /\ Owned(hdr.name) = {})
        => LET out == AuthenticateStart(sid, hdr, TRUE, primOk)
           IN  /\ Saved(sid, out.session).logged_in = {TRUE}
               /\ out.resp.status = "OK"
               /\ out.resp.challenge = {}
               /\ out.resp.prims = {}
               /\ Saved(sid, out.session).passkey_authentication
                      = Data(sid).passkey_authentication

C1_Witness ==
    /\ resp = Plain("authenticate_start", "OK")
    /\ credentials = {}
    /\ \E sid \in SessionIds :
          /\ Flag(sid)
          /\ Data(sid).passkey_authentication = {}
          /\ \A other \in SessionIds \ {sid} : sessions[other] = {}

\* C2: an authenticate_start of a user with at least one credential never
\* changes logged_in; on a session that is not logged in it changes nothing
\* but passkey_authentication, storing the ceremony state and returning the
\* challenge when the primitive succeeds and nothing when it fails; and in a
\* session that is not logged in no request sets logged_in except a
\* successful authenticate_end and an authenticate_start of a user without
\* credentials.
C2_StartNeverLogsIn ==
    /\ \A sid \in SessionIds, hdr \in OkHeaders, primOk \in BOOLEAN :
          Owned(hdr.name) # {}
          => LET out == AuthenticateStart(sid, hdr, TRUE, primOk)
                 after == Saved(sid, out.session)
             IN  /\ after.logged_in = Data(sid).logged_in
                 /\ after = [Data(sid) EXCEPT
                                !.passkey_authentication = after.passkey_authentication]
                 /\ (~Flag(sid) /\ primOk)
                        => /\ out.resp.status = "OK"
                           /\ out.resp.challenge = {cred_ids(Owned(hdr.name))}
                           /\ after.passkey_authentication
                                  = {[creds |-> cred_ids(Owned(hdr.name))]}
                 /\ (~Flag(sid) /\ ~primOk)
                        => /\ out.resp.status = "UNAUTHORIZED"
                           /\ out.resp.challenge = {}
                           /\ after = Data(sid)
    /\ \A sid \in SessionIds :
          ~Flag(sid)
          => /\ \A hdr \in Headers, dbOk \in BOOLEAN, primOk \in BOOLEAN :
                   /\ RegisterStart(sid, hdr, dbOk, primOk).session.logged_in = {}
                   /\ AuthenticateStart(sid, hdr, dbOk, primOk).session.logged_in # {}
                          => (hdr.kind = "ok" /\ dbOk /\ Owned(hdr.name) = {})
             /\ \A ins \in pending[sid], dbOk \in BOOLEAN :
                   RegisterEndInsert(sid, ins, dbOk).session.logged_in = {}
             /\ \A hdr \in Headers, param \in RedirectParams :
                   GetAuthenticateTemplate(sid, hdr, param).session.logged_in = {}
             /\ \A fin \in AuthFins, dbOk \in BOOLEAN :
                   LET out == AuthenticateEnd(sid, fin, dbOk)
                   IN  (Data(sid).passkey_authentication # {} \/ fin = {})
                       => (out.session.logged_in # {}
                              => (fin # {} /\ out.resp.status = "OK"))

C2_Witness ==
    /\ resp.handler = "authenticate_start"
    /\ resp.status = "OK"
    /\ resp.challenge # {}
    /\ \E sid \in SessionIds :
          /\ ~Flag(sid)
          /\ Data(sid).passkey_authentication # {}

C4_NothingPending ==
    \A sid \in SessionIds :
        Data(sid).passkey_authentication = {}
        => \A fin \in AuthFins, dbOk \in BOOLEAN :
              LET out == AuthenticateEnd(sid, fin, dbOk)
              IN  /\ out.resp = Plain("authenticate_end", "NO_CONTENT")
                  /\ out.resp.prims = {}
                  /\ Save(sessions, sid, out.session) = sessions
                  /\ out.db = credentials

\* The second finish of a session whose first finish consumed the state.
C4_Witness ==
    /\ resp = Plain("authenticate_end", "NO_CONTENT")
    /\ credentials # {}
    /\ \E sid \in SessionIds :
          /\ Flag(sid)
          /\ Data(sid).passkey_authentication = {}
          /\ \A other \in SessionIds \ {sid} : sessions[other] = {}

\* The origins the command line names, as strings.
Configured(cfg) == {cfg.rp_origin} \cup cfg.extra_allowed_origins

\* Two strings name the same origin: the same http(s) scheme, the same
\* host, and the same port once the scheme's default stands for none.
SamePort(a, b) ==
    LET port(x) == IF x.port # 0 THEN x.port ELSE IF x.scheme = "https" THEN 443 ELSE 80
    IN  port(a) = port(b)

SameOrigin(a, b) ==
    /\ a.scheme \in {"https", "http"}
    /\ a.scheme = b.scheme
    /\ a.host # <<>>
    /\ a.host = b.host
    /\ SamePort(a, b)

Unparsable(s) == s.scheme = "" \/ (s.scheme \in {"https", "http"} /\ s.host = <<>>)

Gate(s) == validate_redirect(config, config.rp_origin, {s})

\* C5 (as amended): the gate accepts exactly the candidates that parse as
\* absolute URLs and whose origin equals that of the relying-party origin or
\* of an extra allowed origin; a candidate that does not parse is a
\* BAD_REQUEST and any other a FORBIDDEN.  allow_subdomains plays no part:
\* https://sub.example.com is accepted only when it is listed itself, and
\* https://example.com.evil.com and https://example.net are rejected
\* whenever they are not listed.
C5_RedirectGate ==
    /\ \A s \in UrlStrings :
          /\ Gate(s).status = "OK" <=> \E e \in Configured(config) : SameOrigin(e, s)
          /\ Gate(s).status = "BAD_REQUEST" <=> Unparsable(s)
          /\ Gate(s).status \in {"OK", "BAD_REQUEST", "FORBIDDEN"}
          /\ Gate(s).store = IF Gate(s).status = "OK" THEN {s} ELSE {}
    /\ Gate(Str("https", SubExampleCom, 0, <<>>)).status = "OK"
          <=> Str("https", SubExampleCom, 0, <<>>) \in Configured(config)
    /\ Gate(Str("https", ExampleNet, 0, <<>>)).status = "OK"
          <=> Str("https", ExampleNet, 0, <<>>) \in Configured(config)
    /\ Gate(Str("https", ExampleComEvilCom, 0, <<>>)).status = "FORBIDDEN"

\* A request was forbidden in a session that holds an accepted redirect to
\* the subdomain, which the configuration lists.
C5_Witness ==
    /\ resp = Plain("get_authenticate_template", "FORBIDDEN")
    /\ \E sid \in SessionIds :
          Data(sid).redirect_url = {Str("https", SubExampleCom, 0, <<>>)}

\* C5 as stated: with example.com configured and subdomains allowed, the
\* subdomain is accepted, and example.com.evil.com and example.net (not
\* configured) are rejected.
C5_Original ==
    (/\ Str("https", ExampleCom, 0, <<>>) \in Configured(config)
     /\ config.allow_subdomains
     /\ Str("https", ExampleNet, 0, <<>>) \notin Configured(config))
    => /\ Gate(Str("https", SubExampleCom, 0, <<>>)).status = "OK"
       /\ Gate(Str("https", ExampleComEvilCom, 0, <<>>)).status # "OK"
       /\ Gate(Str("https", ExampleNet, 0, <<>>)).status # "OK"

\* C6: a successful authenticate_end returns the session's redirect_url and
\* removes it from the session in the same request, or returns
\* <origin>/credentials when the session holds none; and a session that
\* holds no redirect_url gets one only from the login page accepting one.
C6_RedirectSingleUse ==
    \A sid \in SessionIds :
        /\ \A fin \in AuthFins, dbOk \in BOOLEAN :
              LET out == AuthenticateEnd(sid, fin, dbOk)
              IN  (out.resp.status = "OK" /\ Data(sid).passkey_authentication # {})
                  => /\ Saved(sid, out.session).redirect_url = {}
                     /\ out.resp.redirect_url =
                            IF Data(sid).redirect_url # {} THEN Data(sid).redirect_url
                            ELSE {[config.rp_origin EXCEPT !.path = Append(@, "credentials")]}
        /\ Data(sid).redirect_url = {}
              => /\ \A hdr \in Headers, dbOk \in BOOLEAN, primOk \in BOOLEAN :
                       /\ RegisterStart(sid, hdr, dbOk, primOk).session.redirect_url = {}
                       /\ AuthenticateStart(sid, hdr, dbOk, primOk).session.redirect_url = {}
                 /\ \A ins \in pending[sid], dbOk \in BOOLEAN :
                       RegisterEndInsert(sid, ins, dbOk).session.redirect_url = {}
                 /\ \A hdr \in Headers, param \in RedirectParams :
                       LET out == GetAuthenticateTemplate(sid, hdr, param)
                       IN  out.session.redirect_url # {}
                           => (out.resp.status = "OK" /\ out.session.redirect_url = param)

\* A finish has just returned the stored redirect and the session no longer
\* holds it.
C6_Witness ==
    /\ resp.handler = "authenticate_end"
    /\ resp.status = "OK"
    /\ resp.redirect_url = {Str("https", ExampleCom, 0, <<"credentials">>)}
    /\ \E sid \in SessionIds :
          /\ Flag(sid)
          /\ Data(sid).redirect_url = {}
          /\ \A other \in SessionIds \ {sid} : sessions[other] = {}

\* C7: the validation probe answers OK exactly when the session's logged_in
\* flag is true and UNAUTHORIZED otherwise (no flag, no session); the gate
\* of the protected routes lets a request through exactly then; and after
\* an authenticate_start of a user without credentials the probe answers OK.
C7_GateIffLoggedIn ==
    \A sid \in SessionIds :
        /\ validate(Data(sid)) = IF TRUE \in Data(sid).logged_in THEN "OK" ELSE "UNAUTHORIZED"
        /\ sessions[sid] = {} => validate(Data(sid)) = "UNAUTHORIZED"
        /\ RequireLoggedIn(Data(sid)) <=> TRUE \in Data(sid).logged_in
        /\ \A hdr \in Headers, dbOk \in BOOLEAN, primOk \in BOOLEAN :
              RegisterStart(sid, hdr, dbOk, primOk).resp.status = "TEMPORARY_REDIRECT"
                  <=> TRUE \notin Data(sid).logged_in
        /\ \A hdr \in OkHeaders :
              (TRUE \notin Data(sid).logged_in /\ Owned(hdr.name) = {})
              => validate(Saved(sid, AuthenticateStart(sid, hdr, TRUE, TRUE).session)) = "OK"

\* The probe answered OK in the only session there is, logged in while no
\* user has a credential.
C7_Witness ==
    /\ resp = Plain("validate", "OK")
    /\ credentials = {}
    /\ \E sid \in SessionIds :
          Flag(sid) /\ \A other \in SessionIds \ {sid} : sessions[other] = {}

\* C8: a registration finish that fails leaves the repository as it was:
\* without passkey_registration (NOT_FOUND), on a rejected response
\* (UNAUTHORIZED) and on a credential id the user already has (BAD_REQUEST)
\* the handler returns before any insert, and an insert that returns an
\* error has stored nothing.
C8_FailedFinishStoresNothing ==
    \A sid \in SessionIds :
        /\ \A hdr \in OkHeaders, fin \in FinishRegistration, dbOk \in BOOLEAN :
              LET out == RegisterEndCheck(sid, hdr, fin, dbOk)
              IN  /\ (Flag(sid) /\ Data(sid).passkey_registration = {})
                         => (out.insert = {} /\ out.resp.status = "NOT_FOUND")
                  /\ (Flag(sid) /\ Data(sid).passkey_registration # {} /\ fin = {})
                         => (out.insert = {} /\ out.resp.status = "UNAUTHORIZED")
                  /\ (Flag(sid) /\ Data(sid).passkey_registration # {} /\ dbOk
                         /\ fin \cap cred_ids(Owned(hdr.name)) # {})
                         => (out.insert = {} /\ out.resp.status = "BAD_REQUEST")
                  /\ out.insert = {} => out.resp.status # "OK"
        /\ \A ins \in pending[sid], dbOk \in BOOLEAN :
              LET out == RegisterEndInsert(sid, ins, dbOk)
              IN  IF out.resp.status = "OK"
                  THEN out.db = credentials \cup {Row(ins.id, ins.username, 0)}
                  ELSE out.db = credentials

\* The user's one credential was presented again and refused.
C8_Witness ==
    /\ resp.handler = "register_end"
    /\ resp.status = "BAD_REQUEST"
    /\ Cardinality(credentials) = 1

\* What a finish on session sid answers: registration (for every header and
\* response) and authentication.
FinishAnswers(sid) ==
    {RegisterEndCheck(sid, hdr, fin, TRUE).resp.status :
        hdr \in OkHeaders, fin \in FinishRegistration}
        \cup {AuthenticateEnd(sid, {}, TRUE).resp.status}

\* Session sid, holding a pending ceremony, expires in this step.
ExpiresPending(sid) ==
    /\ sessions[sid] # {}
    /\ sessions'[sid] = {}
    /\ Data(sid).passkey_registration # {} \/ Data(sid).passkey_authentication # {}

\* C9 (as amended): once a session with a pending ceremony has expired, a
\* finish presenting it is answered as on a session that never existed and
\* changes nothing: authenticate_end answers NO_CONTENT (nothing pending),
\* and register_end is turned away by the gate's redirect to the login page,
\* the session no longer being logged in; neither is an internal error.
C9_ExpiredIsMissing ==
    [][\A sid \in SessionIds :
          ExpiresPending(sid)
          => /\ Data(sid)' = EmptySession
             /\ AuthenticateEnd(sid, {}, TRUE)'
                    = [session |-> EmptySession, db |-> credentials',
                       resp |-> Plain("authenticate_end", "NO_CONTENT")]
             /\ \A hdr \in Headers, fin \in FinishRegistration, dbOk \in BOOLEAN :
                    RegisterEndCheck(sid, hdr, fin, dbOk)'
                        = [insert |-> {}, resp |-> Plain("register_end", "TEMPORARY_REDIRECT")]]_vars

\* A finish was answered NO_CONTENT when every session had expired.
C9_Witness ==
    /\ resp = Plain("authenticate_end", "NO_CONTENT")
    /\ credentials # {}
    /\ \A sid \in SessionIds : sessions[sid] = {}

\* C9 as stated: after the expiry both finishes answer with the protocol
\* error for missing ceremony state (NOT_FOUND for registration, NO_CONTENT
\* for authentication).
C9_Original ==
    [][\A sid \in SessionIds :
          ExpiresPending(sid) => FinishAnswers(sid)' \subseteq {"NOT_FOUND", "NO_CONTENT"}]_vars

\* C10: no credential id is stored under two users.
C10_OneOwner ==
    \A r1 \in credentials, r2 \in credentials : r1.id = r2.id => r1.username = r2.username

\* A second user's finish has passed the handler's duplicate check with a
\* credential id that the first user holds, and is about to insert it.
C10_Witness ==
    \E sid \in SessionIds :
        \E ins \in pending[sid], r \in credentials :
            r.id = ins.id /\ r.username # ins.username

\* The redirect_url a login-page request asks to store: the parameter, or
\* <origin>/credentials when the query has none.
Candidate(param) ==
    IF param = {} THEN [config.rp_origin EXCEPT !.path = Append(@, "credentials")]
    ELSE CHOOSE s \in param : TRUE

Allowed(s) == ~Unparsable(s) /\ \E e \in Configured(config) : SameOrigin(e, s)

\* C11: every redirect_url a session holds parses as an absolute URL whose
\* origin is that of a configured origin; the redirect_url a successful
\* authenticate_end returns is such a URL too; and a login-page request
\* whose candidate does not parse or does not match is refused and leaves
\* the session's redirect_url as it was.
C11_StoredRedirectAllowed ==
    \A sid \in SessionIds :
        /\ \A s \in Data(sid).redirect_url : Allowed(s)
        /\ \A fin \in AuthFins, dbOk \in BOOLEAN :
              LET out == AuthenticateEnd(sid, fin, dbOk)
              IN  (Data(sid).passkey_authentication # {} /\ out.resp.status = "OK")
                  => /\ out.resp.redirect_url # {}
                     /\ \A s \in out.resp.redirect_url : Allowed(s)
        /\ \A hdr \in Headers, param \in RedirectParams \cup {{}} :
              LET out == GetAuthenticateTemplate(sid, hdr, param)
              IN  IF Allowed(Candidate(param)) /\ hdr.kind = "ok"
                  THEN out.session.redirect_url = {Candidate(param)}
                  ELSE /\ out.session = Data(sid)
                       /\ out.resp.status # "OK"
                       /\ hdr.kind = "ok"
                              => out.resp.status =
                                     IF Unparsable(Candidate(param)) THEN "BAD_REQUEST"
                                     ELSE "FORBIDDEN"

\* A foreign redirect was refused in the one session there is, which keeps
\* the allowed redirect stored before.
C11_Witness ==
    /\ resp = Plain("get_authenticate_template", "FORBIDDEN")
    /\ \E sid \in SessionIds :
          /\ Data(sid).redirect_url = {Str("https", ExampleCom, 0, <<"credentials">>)}
          /\ \A other \in SessionIds \ {sid} : sessions[other] = {}

\* C12 as stated, for requests without the X-Remote-User header: registration
\* start and finish and authentication start are refused as an authorization
\* failure (UNAUTHORIZED, or the gate's redirect when the session is not
\* logged in) and change nothing; and an authentication finish on a pending
\* ceremony, whose handler takes no header, is refused UNAUTHORIZED and
\* changes neither the session nor the repository whatever the primitive
\* answers.
C12_Original ==
    \A sid \in SessionIds, hdr \in Headers :
        hdr.kind = "absent"
        => /\ \A dbOk \in BOOLEAN, primOk \in BOOLEAN :
                 /\ RegisterStart(sid, hdr, dbOk, primOk).session = Data(sid)
                 /\ RegisterStart(sid, hdr, dbOk, primOk).resp.status
                        \in {"UNAUTHORIZED", "TEMPORARY_REDIRECT"}
                 /\ AuthenticateStart(sid, hdr, dbOk, primOk)
                        = [session |-> Data(sid),
                           resp |-> Plain("authenticate_start", "UNAUTHORIZED")]
           /\ \A fin \in FinishRegistration, dbOk \in BOOLEAN :
                 /\ RegisterEndCheck(sid, hdr, fin, dbOk).insert = {}
                 /\ RegisterEndCheck(sid, hdr, fin, dbOk).resp.status
                        \in {"UNAUTHORIZED", "TEMPORARY_REDIRECT"}
           /\ \A state \in Data(sid).passkey_authentication :
                 \A fin \in FinishAuthentication(state), dbOk \in BOOLEAN :
                     LET out == AuthenticateEnd(sid, fin, dbOk)
                     IN  /\ out.resp.status = "UNAUTHORIZED"
                         /\ out.session = Data(sid)
                         /\ out.db = credentials

\* C13 as stated: once a registration finish has answered OK, UNAUTHORIZED
\* (rejected by the primitive) or BAD_REQUEST (duplicate), its session holds
\* no passkey_registration; and once an authentication finish has answered
\* OK or UNAUTHORIZED, its session holds no passkey_authentication.
C13_Original ==
    [][\A sid \in SessionIds :
          /\ \A hdr \in OkHeaders, fin \in FinishRegistration :
                (/\ register_end_handler(sid, hdr, fin, TRUE)
                 /\ pending'[sid] = {}
                 /\ resp'.status \in {"OK", "UNAUTHORIZED", "BAD_REQUEST"})
                => Data(sid)'.passkey_registration = {}
          /\ (/\ register_end_handler_insert(sid, TRUE)
              /\ resp'.status \in {"OK", "UNAUTHORIZED", "BAD_REQUEST"})
                => Data(sid)'.passkey_registration = {}
          /\ \A fin \in AuthFins :
                (/\ authenticate_end_handler(sid, fin, TRUE)
                 /\ resp'.status \in {"OK", "UNAUTHORIZED"})
                => Data(sid)'.passkey_authentication = {}]_vars

\* C14: a registration finish or an authentication finish whose response the
\* primitive rejects answers UNAUTHORIZED, having called the primitive, and
\* leaves every session and the credential repository exactly as they were.
C14_RejectionChangesNothing ==
    [][\A sid \in SessionIds :
          /\ \A hdr \in OkHeaders :
                (/\ register_end_handler(sid, hdr, {}, TRUE)
                 /\ Flag(sid)
                 /\ Data(sid).passkey_registration # {})
                => /\ resp'.handler = "register_end"
                   /\ resp'.status = "UNAUTHORIZED"
                   /\ resp'.prims # {}
                   /\ resp'.repo = {}
                   /\ sessions' = sessions
                   /\ credentials' = credentials
                   /\ pending' = pending
          /\ (/\ authenticate_end_handler(sid, {}, TRUE)
              /\ Data(sid).passkey_authentication # {})
                => /\ resp'.handler = "authenticate_end"
                   /\ resp'.status = "UNAUTHORIZED"
                   /\ resp'.prims # {}
                   /\ resp'.repo = {}
                   /\ sessions' = sessions
                   /\ credentials' = credentials
                   /\ pending' = pending]_vars

\* An authentication finish was rejected: the session still holds its
\* ceremony state and is not logged in, and the stored credential is as it was.
C14_Witness ==
    /\ resp.handler = "authenticate_end"
    /\ resp.status = "UNAUTHORIZED"
    /\ credentials = {Row(1, 1, 0)}
    /\ \E sid \in SessionIds : ~Flag(sid) /\ Data(sid).passkey_authentication # {}

\* C15: an authentication finish that succeeds leaves the session without
\* passkey_authentication and with logged_in = true, and any further finish
\* on the session it leaves answers NO_CONTENT, calling no primitive and
\* changing nothing.
C15_FinishConsumesState ==
    \A sid \in SessionIds, fin \in AuthFins, dbOk \in BOOLEAN :
        LET out == AuthenticateEnd(sid, fin, dbOk)
            after == Saved(sid, out.session)
        IN  (Data(sid).passkey_authentication # {} /\ out.resp.status = "OK")
            => /\ after.passkey_authentication = {}
               /\ after.logged_in = {TRUE}
               /\ \A again \in AuthFins, dbOk2 \in BOOLEAN :
                     authenticate_end(after, out.db, config.rp_origin, again, dbOk2)
                         = [session |-> after, db |-> out.db,
                            resp |-> Plain("authenticate_end", "NO_CONTENT")]

\* A finish was answered NO_CONTENT in the one session there is, which is
\* logged in, after a finish had written the counter back.
C15_Witness ==
    /\ resp = Plain("authenticate_end", "NO_CONTENT")
    /\ credentials = {Row(1, 1, 1)}
    /\ \E sid \in SessionIds :
          /\ Flag(sid)
          /\ Data(sid).passkey_authentication = {}
          /\ \A other \in SessionIds \ {sid} : sessions[other] = {}

\* C16: a registration start by a logged-in session, once the user's
\* credentials are read: when the primitive fails, the answer is
\* INTERNAL_SERVER_ERROR and the session is as it was; when it succeeds, the
\* session is as it was except that passkey_registration is the state that
\* call returned, replacing any earlier one, the challenge is returned, and
\* the primitive was given the ids of the user's stored credentials to
\* exclude.
C16_StartStoresAfterPrimitive ==
    \A sid \in SessionIds, hdr \in OkHeaders :
        LET ids == {r.id : r \in Owned(hdr.name)}
            failed == RegisterStart(sid, hdr, TRUE, FALSE)
            done == RegisterStart(sid, hdr, TRUE, TRUE)
        IN  Flag(sid)
            => /\ failed.session = Data(sid)
               /\ failed.resp.status = "INTERNAL_SERVER_ERROR"
               /\ failed.resp.challenge = {}
               /\ failed.resp.repo = {}
               /\ done.session = [Data(sid) EXCEPT !.passkey_registration = {[excl |-> ids]}]
               /\ done.resp.status = "OK"
               /\ done.resp.challenge = {ids}
               /\ done.resp.prims = {Prim("start_passkey_registration", ids)}
               /\ done.resp.repo = {}

\* A user who holds credential 1 has started another registration, with
\* credential 1 excluded.
C16_Witness ==
    /\ resp.handler = "register_start"
    /\ resp.status = "OK"
    /\ resp.challenge = {{1}}
    /\ \E sid \in SessionIds : Data(sid).passkey_registration = {[excl |-> {1}]}

\* C17: an authentication finish whose response the primitive accepts calls
\* update_credential exactly when the result says the stored record needs
\* updating; when it does not, the finish succeeds and leaves the credential
\* repository as it was, whether or not the repository is available.
C17_UpdateOnlyWhenNeeded ==
    \A sid \in SessionIds :
        \A state \in Data(sid).passkey_authentication :
            \A a \in {r \in AuthResults : r.cred_id \in state.creds}, dbOk \in BOOLEAN :
                LET out == AuthenticateEnd(sid, {a}, dbOk)
                IN  /\ out.resp.repo = IF a.needs_update THEN {"update_credential"} ELSE {}
                    /\ ~a.needs_update
                          => /\ out.db = credentials
                             /\ out.resp.status = "OK"
                    /\ (a.needs_update /\ dbOk)
                          => /\ out.resp.status = "OK"
                             /\ out.db = update_credential(credentials, a)

\* A finish succeeded without a write: the counter another finish had
\* written back is still the stored one.
C17_Witness ==
    /\ resp.handler = "authenticate_end"
    /\ resp.status = "OK"
    /\ resp.repo = {}
    /\ resp.prims = {Prim("finish_passkey_authentication", {1})}
    /\ credentials = {Row(1, 1, 1)}

\* C18: logged_in is never stored as false; a session that is not logged in
\* becomes logged in only by an authenticate_start for a user without
\* credentials or by an authenticate_end on its pending ceremony that
\* answers OK; and a logged-in session stops being so only when the session
\* store drops it, never by a handler.
C18_LoggedInOrigin ==
    [][\A sid \in SessionIds :
          /\ Data(sid).logged_in \subseteq {TRUE}
          /\ (~Flag(sid) /\ Flag(sid)')
                => \/ \E hdr \in OkHeaders :
                         /\ Owned(hdr.name) = {}
                         /\ authenticate_start_handler(sid, hdr, TRUE, TRUE)
                   \/ \E fin \in AuthFins \ {{}}, dbOk \in BOOLEAN :
                         /\ Data(sid).passkey_authentication # {}
                         /\ authenticate_end_handler(sid, fin, dbOk)
                         /\ resp'.status = "OK"
          /\ (Flag(sid) /\ ~Flag(sid)')
                => (sessions'[sid] = {} /\ resp' = resp)]_vars

\* One session has logged in by finishing a ceremony while another, which
\* has only visited the login page, has not.
C18_Witness ==
    /\ resp.handler = "authenticate_end"
    /\ resp.status = "OK"
    /\ \E sid \in SessionIds, other \in SessionIds :
          /\ Flag(sid)
          /\ ~Flag(other)
          /\ Data(other).redirect_url # {}

\* C19: a request to registration start, registration finish or credential
\* deletion from a session that is not logged in is answered by the gate's
\* redirect and changes neither the session nor the repository, nor leaves
\* an insert to make; and an insert in flight belongs to a session that is
\* logged in.
C19_GateBeforeRepository ==
    \A sid \in SessionIds :
        /\ pending[sid] # {} => TRUE \in Data(sid).logged_in
        /\ TRUE \notin Data(sid).logged_in
              => /\ \A hdr \in Headers, dbOk \in BOOLEAN, primOk \in BOOLEAN :
                       RegisterStart(sid, hdr, dbOk, primOk)
                           = [session |-> Data(sid),
                              resp |-> Plain("register_start", "TEMPORARY_REDIRECT")]
                 /\ \A hdr \in Headers, fin \in FinishRegistration, dbOk \in BOOLEAN :
                       RegisterEndCheck(sid, hdr, fin, dbOk)
                           = [insert |-> {},
                              resp |-> Plain("register_end", "TEMPORARY_REDIRECT")]
                 /\ \A id \in CredIds, dbOk \in BOOLEAN :
                       delete_credentials_api(Data(sid), credentials, id, dbOk)
                           = [db |-> credentials,
                              resp |-> Plain("delete_credentials_api", "TEMPORARY_REDIRECT")]

\* A deletion was turned away while the credential it names is stored and
\* no session is logged in.
C19_Witness ==
    /\ resp = Plain("delete_credentials_api", "TEMPORARY_REDIRECT")
    /\ credentials = {Row(1, 1, 0)}
    /\ \A sid \in SessionIds : ~Flag(sid)

\* The redirect_url parameter of the gate's redirect,
\* /authenticate?redirect_url=/credentials: a path, with no scheme or host.
GateRedirectParam == {Str("", <<>>, 0, <<"credentials">>)}

\* C20 as stated: when the gate has redirected a session that is not logged
\* in, the login-page request the redirect names is served (OK) and stores a
\* redirect_url in the session.
C20_Original ==
    \A sid \in SessionIds, hdr \in OkHeaders :
        (resp.status = "TEMPORARY_REDIRECT" /\ ~Flag(sid))
        => LET out == GetAuthenticateTemplate(sid, hdr, GateRedirectParam)
           IN  /\ out.resp.status = "OK"
               /\ out.session.redirect_url # {}

\* C21: an authentication finish whose result needs a write-back that the
\* repository fails answers with the error, having called update_credential,
\* and leaves the session (logged_in and passkey_authentication included)
\* and the repository as they were; and a finish on a pending ceremony
\* changes logged_in only when the primitive accepted the response, any
\* write-back needed succeeded, and the answer is OK.
C21_LoginAfterWriteBack ==
    \A sid \in SessionIds :
        \A state \in Data(sid).passkey_authentication :
            \A fin \in FinishAuthentication(state), dbOk \in BOOLEAN :
                LET out == AuthenticateEnd(sid, fin, dbOk)
                    needs == \E a \in fin : a.needs_update
                IN  /\ (needs /\ ~dbOk)
                          => /\ out.resp.status = "INTERNAL_SERVER_ERROR"
                             /\ out.resp.repo = {"update_credential"}
                             /\ out.resp.redirect_url = {}
                             /\ out.session = Data(sid)
                             /\ out.db = credentials
                    /\ out.session.logged_in # Data(sid).logged_in
                          => /\ fin # {}
                             /\ needs => dbOk
                             /\ out.resp.status = "OK"

\* A write-back failed: the session is still not logged in and still holds
\* its ceremony state, and the stored counter is the old one.
C21_Witness ==
    /\ resp.handler = "authenticate_end"
    /\ resp.status = "INTERNAL_SERVER_ERROR"
    /\ resp.repo = {"update_credential"}
    /\ credentials = {Row(1, 1, 0)}
    /\ \E sid \in SessionIds :
          /\ ~Flag(sid)
          /\ Data(sid).passkey_authentication # {}
          /\ \A other \in SessionIds \ {sid} : sessions[other] = {}

====
